---- MODULE Spec2Model ----
(***************************************************************************)
(* The product service: HTTP routing, body parsing and validation, the     *)
(* ProductService repository over the PostgreSQL products table reached    *)
(* through the pg connection pool (services/product-service/server.js,     *)
(* schema in unnamed/part_001), and the earlier in-memory variant          *)
(* (unnamed/part_000).                                                     *)
(*                                                                         *)
(* Numbers that travel in JSON bodies (price, stock) are integers counting *)
(* thousandths, so 19994 is 19.994 and -500 is -0.5.  A JSON object is a   *)
(* function whose domain is the set of keys it has; a key that is absent   *)
(* reads as JavaScript's undefined.                                        *)
(***************************************************************************)
EXTENDS Integers, Sequences, FiniteSets, TLC

\* new Pool({ max: 20 })
PoolMax == 20

\* Bounds of the model.
MaxOps == 2
MaxClock == 1
MaxSeq == 3
MaxSignals == 2

Slots == {1, 2}

Keys == {"name", "description", "price", "category", "stock"}

EmptyObj == [k \in {} |-> 0]

Has(obj, k) == k \in DOMAIN obj

(***************************************************************************)
(* Conversions.                                                            *)
(***************************************************************************)

Abs(n) == IF n < 0 THEN 0 - n ELSE n

\* parseFloat of a JSON number: String(n) parsed back, the number itself.
parseFloat(n) == n

\* parseInt of a JSON number: the digits before the decimal point, so the
\* value is truncated toward zero (parseInt(-0.5) is -0, sent as "0").
parseInt(n) == IF n < 0 THEN 0 - ((Abs(n) \div 1000) * 1000) ELSE (n \div 1000) * 1000

\* Assignment to a DECIMAL(10,2) column: rounded to two decimals, half away
\* from zero.
Round2(n) == IF n < 0 THEN 0 - (((Abs(n) + 5) \div 10) * 10) ELSE ((n + 5) \div 10) * 10

(***************************************************************************)
(* Text.  The category names and the category filters, by their characters.*)
(***************************************************************************)

Chars(str) ==
  CASE str = "" -> <<>>
    [] str = "_" -> <<"_">>
    [] str = "audio" -> <<"a", "u", "d", "i", "o">>
    [] str = "Audio" -> <<"A", "u", "d", "i", "o">>
    [] str = "Electronics" -> <<"E", "l", "e", "c", "t", "r", "o", "n", "i", "c", "s">>
    [] str = "Wearables" -> <<"W", "e", "a", "r", "a", "b", "l", "e", "s">>
    [] str = "Accessories" -> <<"A", "c", "c", "e", "s", "s", "o", "r", "i", "e", "s">>

LowerOf(c) ==
  CASE c = "A" -> "a" [] c = "E" -> "e" [] c = "W" -> "w" [] OTHER -> c

\* String.prototype.toLowerCase, LOWER()
ToLower(txt) == [i \in 1..Len(txt) |-> LowerOf(txt[i])]

\* String.prototype.includes
Includes(hay, needle) ==
  \E i \in 0..(Len(hay) - Len(needle)) : SubSeq(hay, i + 1, i + Len(needle)) = needle

\* text LIKE pattern: % matches any run of characters, _ any one character.
RECURSIVE Like(_, _)
Like(txt, pat) ==
  IF pat = <<>> THEN txt = <<>>
  ELSE IF Head(pat) = "%"
    THEN Like(txt, Tail(pat)) \/ (txt # <<>> /\ Like(Tail(txt), pat))
  ELSE /\ txt # <<>>
       /\ Head(pat) = "_" \/ Head(pat) = Head(txt)
       /\ Like(Tail(txt), Tail(pat))

\* A number, or NaN.
Num(n) == [nan |-> FALSE, n |-> n]

NaN == [nan |-> TRUE, n |-> 0]

\* The text of a query parameter that holds a price: the digits of a number,
\* or text that does not start with one.
Digits(n) == [kind |-> "digits", n |-> n]

Junk == [kind |-> "junk", n |-> 0]

\* parseFloat of a query parameter.
parseFloatText(v) == IF v.kind = "digits" THEN Num(v.n) ELSE NaN

\* JavaScript's >= and <= : false when an operand is NaN.
JsGe(price, v) == ~v.nan /\ price >= v.n

JsLe(price, v) == ~v.nan /\ price <= v.n

\* numeric >= and <= : NaN is greater than every other value.
PgGe(price, v) == ~v.nan /\ price >= v.n

PgLe(price, v) == v.nan \/ price <= v.n

(***************************************************************************)
(* Request bodies.  A body is the text received; parseBody turns it into   *)
(* (err, parsed).                                                          *)
(***************************************************************************)

GoodVal ==
  [name |-> "Mouse", description |-> "wireless", price |-> 19994,
   category |-> "Accessories", stock |-> 1500]

Patch(K) == [k \in K |-> GoodVal[k]]

With(obj, k, v) == [f \in (DOMAIN obj) \cup {k} |-> IF f = k THEN v ELSE obj[f]]

Required == {"name", "price", "category"}

BadPrices == {0 - 1000, 0, 4}

BadStocks == {0 - 1000, 0 - 500}

Text(kind, obj) == [kind |-> kind, obj |-> obj]

\* The empty body, a body that is not JSON, and the JSON text null.
NonObjects ==
  {Text("empty", EmptyObj), Text("malformed", EmptyObj), Text("null", EmptyObj)}

\* Bodies sent to POST /api/products.
PostBodies ==
  NonObjects \cup
    {Text("object", o) :
       o \in {Patch(K) : K \in {Required, Keys} \cup {Required \ {k} : k \in Required}}
             \cup {With(Patch(Required), "price", p) : p \in BadPrices}
             \cup {With(Patch(Required), "stock", q) : q \in BadStocks}}

\* Bodies sent to PUT /api/products/{id}.
PutBodies ==
  NonObjects \cup
    {Text("object", o) :
       o \in {Patch(K) : K \in {{}, {"price"}, {"stock"}, Keys}}
             \cup {With(EmptyObj, "price", p) : p \in BadPrices \ {4}}
             \cup {With(EmptyObj, "stock", q) : q \in BadStocks}
             \cup {With(Patch(K), "id", 7000) : K \in {{}, {"name"}}}}

NoBody == Text("none", EmptyObj)

\* The query of a URL without parameters.
NoQuery == EmptyObj

WithOpt(obj, k, V) == {obj} \cup {With(obj, k, v) : v \in V}

\* Queries sent to GET /api/products: each of category, minPrice and maxPrice
\* absent or present.
Queries ==
  UNION {UNION {WithOpt(q2, "maxPrice", {Digits(250000), Junk}) :
                  q2 \in WithOpt(q1, "minPrice", {Digits(250000)})} :
           q1 \in WithOpt(EmptyObj, "category", {"", "audio", "_"})}

parseBody(text) ==
  IF text.kind = "malformed" THEN [err |-> TRUE, body |-> Text("null", EmptyObj)]
  ELSE IF text.kind = "empty" THEN [err |-> FALSE, body |-> Text("object", EmptyObj)]
  ELSE [err |-> FALSE, body |-> text]

\* !name, !category: undefined or the empty string.
FalsyStr(obj, k) == ~Has(obj, k) \/ obj[k] = ""

\* !price: undefined or 0.
FalsyNum(obj, k) == ~Has(obj, k) \/ obj[k] = 0

(***************************************************************************)
(* The products table.                                                     *)
(***************************************************************************)

SeedRows ==
  {[id |-> 1, name |-> "Gaming Laptop Pro", description |-> "seeded",
    price |-> 1299990, category |-> "Electronics", stock |-> 15000,
    created_at |-> 0, updated_at |-> 0],
   [id |-> 2, name |-> "Wireless Headphones", description |-> "seeded",
    price |-> 249990, category |-> "Audio", stock |-> 30000,
    created_at |-> 0, updated_at |-> 0]}

\* A sequence that hands out its current value without advancing.
NextValStuck(sq) == sq

\* id SERIAL: nextval of the sequence.
NextVal(sq) == sq + 1

\* A DELETE that returns the row and leaves it in the table.
AfterDeleteKept(tbl, id) == tbl

\* The table after DELETE FROM products WHERE id = $1.
AfterDelete(tbl, id) == {row \in tbl : row.id # id}

\* CHECK (price > 0), CHECK (stock >= 0)
CheckOk(row) == row.price > 0 /\ row.stock >= 0

\* A statement whose WHERE clause fails to restrict the rows.
RowsWithIdAny(tbl, id) == tbl

\* The rows WHERE id = $n selects.
RowsWithId(tbl, id) == {row \in tbl : row.id = id}

Ids(tbl) == {row.id : row \in tbl}

\* sql += ` AND <col> <op> $${params.length + 1}`; params.push(v)
Push(st, col, op, v) ==
  [text |-> Append(st.text, [col |-> col, op |-> op, ph |-> Len(st.params) + 1]),
   params |-> Append(st.params, v)]

\* if (filters.minPrice), if (filters.maxPrice): absent or the empty text.
FalsyText(obj, k) == ~Has(obj, k) \/ obj[k].kind = "blank"

\* The command text (its AND clauses, in order) and the parameter list
\* getAllProducts builds.
getAllProducts(filters) ==
  LET s0 == [text |-> <<>>, params |-> <<>>]
      s1 == IF FalsyStr(filters, "category") THEN s0
            ELSE Push(s0, "category", "like", <<"%">> \o Chars(filters.category) \o <<"%">>)
      s2 == IF FalsyText(filters, "minPrice") THEN s1
            ELSE Push(s1, "price", ">=", parseFloatText(filters.minPrice))
      s3 == IF FalsyText(filters, "maxPrice") THEN s2
            ELSE Push(s2, "price", "<=", parseFloatText(filters.maxPrice))
  IN s3

\* One AND clause of the WHERE, its placeholder bound to params[ph].
Satisfies(row, clause, params) ==
  LET v == params[clause.ph]
  IN CASE clause.op = "like" -> Like(ToLower(Chars(row.category)), ToLower(v))
       [] clause.op = ">=" -> PgGe(row.price, v)
       [] clause.op = "<=" -> PgLe(row.price, v)

\* The rows SELECT ... WHERE 1=1 AND ... returns.
Select(tbl, st) ==
  {row \in tbl : \A i \in 1..Len(st.text) : Satisfies(row, st.text[i], st.params)}

\* createProduct's parameter list.
CreateParams(obj) ==
  [name |-> obj.name,
   description |-> IF FalsyStr(obj, "description") THEN "" ELSE obj.description,
   price |-> parseFloat(obj.price),
   category |-> obj.category,
   stock |-> IF ~Has(obj, "stock") THEN 0
             ELSE IF parseInt(obj.stock) = 0 THEN 0 ELSE parseInt(obj.stock)]

\* The row INSERT ... VALUES ($1..$5, CURRENT_TIMESTAMP, CURRENT_TIMESTAMP) builds.
InsertRow(p, id, now) ==
  [id |-> id, name |-> p.name, description |-> p.description,
   price |-> Round2(p.price), category |-> p.category, stock |-> p.stock,
   created_at |-> now, updated_at |-> now]

\* A SET list built from every key of the body.
UpdateFieldsAny(obj) == DOMAIN obj

\* The columns updateProduct puts in the SET list.
UpdateFields(obj) == (DOMAIN obj) \cap Keys

\* updateProduct's parameters, by column.
UpdateParams(obj) ==
  [k \in UpdateFields(obj) |->
     IF k = "price" THEN parseFloat(obj[k])
     ELSE IF k = "stock" THEN parseInt(obj[k])
     ELSE obj[k]]

\* A SET entry whose placeholder is numbered without counting ($1 each time).
SetFieldStuck(st, obj, col) ==
  IF ~Has(obj, col) THEN st
  ELSE [updates |-> Append(st.updates, [col |-> col, ph |-> 1]),
        params |-> Append(st.params, UpdateParams(obj)[col]),
        paramCount |-> st.paramCount]

\* if (<col> !== undefined) { updates.push(`<col> = $${paramCount++}`);
\*                            params.push(<value>) }
SetField(st, obj, col) ==
  IF ~Has(obj, col) THEN st
  ELSE [updates |-> Append(st.updates, [col |-> col, ph |-> st.paramCount]),
        params |-> Append(st.params, UpdateParams(obj)[col]),
        paramCount |-> st.paramCount + 1]

\* The command text updateProduct builds (the SET list in order and the
\* placeholder of WHERE id = $n) and its parameter list.
updateProduct(id, obj) ==
  LET s0 == [updates |-> <<>>, params |-> <<>>, paramCount |-> 1]
      s1 == SetField(s0, obj, "name")
      s2 == SetField(s1, obj, "description")
      s3 == SetField(s2, obj, "price")
      s4 == SetField(s3, obj, "category")
      s5 == SetField(s4, obj, "stock")
  IN [set |-> s5.updates, where |-> s5.paramCount, params |-> Append(s5.params, id)]

\* The value each column of the SET list is assigned: its placeholder's
\* parameter.
Bound(st) ==
  [c \in {st.set[i].col : i \in DOMAIN st.set} |->
     st.params[st.set[CHOOSE i \in DOMAIN st.set : st.set[i].col = c].ph]]

\* An UPDATE that writes the description column even when the body has none.
ApplyUpdateAll(row, p, now) ==
  [f \in DOMAIN row |->
     IF f \in DOMAIN p THEN (IF f = "price" THEN Round2(p[f]) ELSE p[f])
     ELSE IF f = "updated_at" THEN now
     ELSE IF f = "description" THEN ""
     ELSE row[f]]

\* The row UPDATE ... SET <fields>, updated_at = CURRENT_TIMESTAMP produces.
ApplyUpdate(row, p, now) ==
  [f \in DOMAIN row |->
     IF f \in DOMAIN p THEN (IF f = "price" THEN Round2(p[f]) ELSE p[f])
     ELSE IF f = "updated_at" THEN now
     ELSE row[f]]

\* The in-memory variant's sample products.
MemSeed ==
  <<[id |-> 1, name |-> "Gaming Laptop Pro", description |-> "seeded",
     price |-> 1299990, category |-> "Electronics", stock |-> 15000, createdAt |-> 0],
    [id |-> 2, name |-> "Wireless Headphones", description |-> "seeded",
     price |-> 249990, category |-> "Audio", stock |-> 30000, createdAt |-> 0],
    [id |-> 3, name |-> "Smart Watch", description |-> "seeded",
     price |-> 199990, category |-> "Wearables", stock |-> 25000, createdAt |-> 0]>>

Max(S) == CHOOSE m \in S : \A n \in S : n <= m

\* Math.max(...products.map(p => p.id)) + 1
NextMemId(arr) == Max({arr[i].id : i \in 1..Len(arr)}) + 1

\* The object POST pushes in the in-memory variant.
NewProduct(obj, arr, now) ==
  [id |-> NextMemId(arr), name |-> obj.name,
   description |-> IF FalsyStr(obj, "description") THEN "" ELSE obj.description,
   price |-> parseFloat(obj.price), category |-> obj.category,
   stock |-> IF ~Has(obj, "stock") THEN 0
             ELSE IF parseInt(obj.stock) = 0 THEN 0 ELSE parseInt(obj.stock),
   createdAt |-> now]

(***************************************************************************)
(* State.                                                                  *)
(***************************************************************************)

VARIABLES
  variant,     \* which implementation runs: "persisted" or "memory"
  table,       \* rows of the products table
  seq,         \* last value of the id sequence (SERIAL)
  clock,       \* CURRENT_TIMESTAMP
  dbUp,        \* whether the storage engine answers
  checkedOut,  \* pool clients checked out and not released
  boot,        \* position of startServer
  alive,       \* the process is running
  slots,       \* requests in flight, one per connection slot
  ops,         \* requests accepted so far, health probes apart
  issued,      \* the identifiers assigned so far, seeded ones first, in order
  del200,      \* per identifier, the DELETE requests answered 200
  products,    \* the in-memory variant's array
  closing,     \* the server.close callbacks of gracefulShutdown, one per signal
  pool,        \* the pool: "open", "ending" (end() called) or "ended"
  exitCode     \* the code given to process.exit, -1 before

vars ==
  <<variant, table, seq, clock, dbUp, checkedOut, boot, alive, slots, ops, issued, del200,
    products, closing, pool, exitCode>>

NoResult == [kind |-> "none", rows |-> {}]

Idle ==
  [pc |-> "idle", method |-> "", path |-> "", id |-> 0, body |-> NoBody,
   result |-> NoResult, status |-> 0, error |-> "", data |-> {}, db |-> "",
   nresp |-> 0, known |-> FALSE, query |-> NoQuery]

\* The identifiers requests name: a seeded product and the first created one.
RequestIds == {1, 3}

Range(f) == {f[i] : i \in DOMAIN f}

Init ==
  /\ variant \in {"persisted", "memory"}
  /\ table = SeedRows
  /\ seq = Cardinality(SeedRows)
  /\ clock = 0
  /\ dbUp = TRUE
  /\ checkedOut = 0
  /\ boot = "connect"
  /\ alive = TRUE
  /\ slots = [s \in Slots |-> Idle]
  /\ ops = 0
  /\ issued = IF variant = "persisted" THEN <<1, 2>> ELSE [i \in 1..Len(MemSeed) |-> MemSeed[i].id]
  /\ del200 = [i \in RequestIds |-> 0]
  /\ products = MemSeed
  /\ closing = <<>>
  /\ pool = "open"
  /\ exitCode = 0 - 1

(***************************************************************************)
(* Slot helpers.                                                           *)
(***************************************************************************)

Set(s, r) == slots' = [slots EXCEPT ![s] = r]

\* res.writeHead(status); res.end(JSON.stringify(envelope))
Respond(r, status, error, data) ==
  [r EXCEPT !.pc = "done", !.status = status, !.error = error, !.data = data,
            !.nresp = @ + 1]

Persisted == variant = "persisted" /\ alive

Serving == Persisted /\ boot = "listening"

\* A new request takes the first free connection slot.
Free(s) == slots[s].pc = "idle" /\ \A t \in Slots : t < s => slots[t].pc # "idle"

\* pool.query: a client is acquired, the statement runs, the client is released.
\* A pool that is ending gives out no client.
StorageOk == dbUp /\ checkedOut < PoolMax /\ pool = "open"

Methods == {"GET", "POST", "PUT", "DELETE", "OPTIONS"}

Paths == {"health", "collection", "item", "other"}

\* The order of the tests in the request listener.
Route(method, path) ==
  IF method = "OPTIONS" THEN "preflight"
  ELSE IF path = "health" THEN "health"
  ELSE IF path = "collection" /\ method = "GET" THEN "list"
  ELSE IF path = "item" /\ method = "GET" THEN "get"
  ELSE IF path = "collection" /\ method = "POST" THEN "create"
  ELSE IF path = "item" /\ method = "PUT" THEN "update"
  ELSE IF path = "item" /\ method = "DELETE" THEN "delete"
  ELSE "notfound"

\* The request as received; known records whether the product it names
\* existed then.
Received(method, path, id) ==
  [Idle EXCEPT !.method = method, !.path = path, !.id = id,
               !.known = IF variant = "persisted" THEN id \in Ids(table)
                         ELSE id \in {products[i].id : i \in DOMAIN products}]

Store == <<table, seq, issued, del200>>

Down == <<closing, pool, exitCode>>

Env == <<variant, clock, dbUp, boot, alive, products, Down>>

(***************************************************************************)
(* startServer                                                             *)
(***************************************************************************)

StartConnect ==
  /\ Persisted /\ boot = "connect"
  /\ IF StorageOk
       THEN checkedOut' = checkedOut + 1 /\ boot' = "query"
       ELSE checkedOut' = checkedOut /\ boot' = "listen"
  /\ UNCHANGED <<variant, table, seq, clock, dbUp, alive, slots, ops, issued, del200, products, Down>>

StartQuery ==
  /\ Persisted /\ boot = "query"
  /\ IF dbUp
       THEN checkedOut' = checkedOut - 1
       ELSE checkedOut' = checkedOut
  /\ boot' = "listen"
  /\ UNCHANGED <<variant, table, seq, clock, dbUp, alive, slots, ops, issued, del200, products, Down>>

StartListen ==
  /\ Persisted /\ boot = "listen"
  /\ boot' = "listening"
  /\ UNCHANGED <<variant, table, seq, clock, dbUp, checkedOut, alive, slots, ops, issued, del200, products, Down>>

(***************************************************************************)
(* The request listener up to its first await or return.                   *)
(***************************************************************************)

Preflight(s) ==
  /\ Serving /\ Free(s) /\ ops < MaxOps
  /\ \E path \in Paths :
       Set(s, Respond(Received("OPTIONS", path, 0), 200, "", {}))
  /\ ops' = ops + 1
  /\ UNCHANGED <<Store, Env, checkedOut>>

RouteNotFound(s) ==
  /\ Serving /\ Free(s) /\ ops < MaxOps
  /\ \E method \in Methods, path \in Paths :
       /\ Route(method, path) = "notfound"
       /\ Set(s, Respond(Received(method, path, 0), 404, "Route not found", {}))
  /\ ops' = ops + 1
  /\ UNCHANGED <<Store, Env, checkedOut>>

Health(s) ==
  /\ Serving /\ Free(s)
  /\ \E method \in Methods :
       /\ Route(method, "health") = "health"
       /\ Set(s, [Received(method, "health", 0) EXCEPT !.pc = "connect"])
  /\ UNCHANGED <<Store, Env, checkedOut, ops>>

\* Routes that issue their statement at once: list, get, delete.
Query(s) ==
  /\ Serving /\ Free(s) /\ ops < MaxOps
  /\ \E method \in Methods, path \in Paths, id \in RequestIds :
       /\ Route(method, path) \in {"list", "get", "delete"}
       /\ path = "collection" => id = 1
       /\ Set(s, [Received(method, path, IF path = "item" THEN id ELSE 0)
                    EXCEPT !.pc = "query"])
  /\ ops' = ops + 1
  /\ UNCHANGED <<Store, Env, checkedOut>>

\* Routes that first read the body: create, update.
ReadBody(s) ==
  /\ Serving /\ Free(s) /\ ops < MaxOps
  /\ \E method \in Methods, path \in Paths, id \in RequestIds :
       /\ Route(method, path) \in {"create", "update"}
       /\ path = "collection" => id = 1
       /\ Set(s, [Received(method, path, IF path = "item" THEN id ELSE 0)
                    EXCEPT !.pc = "body"])
  /\ ops' = ops + 1
  /\ UNCHANGED <<Store, Env, checkedOut>>

\* GET /api/products with query parameters.
FilteredList(s) ==
  /\ Serving /\ Free(s) /\ ops < MaxOps
  /\ \E q \in Queries \ {NoQuery} :
       Set(s, [Received("GET", "collection", 0) EXCEPT !.pc = "query", !.query = q])
  /\ ops' = ops + 1
  /\ UNCHANGED <<Store, Env, checkedOut>>

(***************************************************************************)
(* GET /health                                                             *)
(***************************************************************************)

HealthConnect(s) ==
  /\ alive /\ slots[s].pc = "connect"
  /\ IF StorageOk
       THEN /\ checkedOut' = checkedOut + 1
            /\ Set(s, [slots[s] EXCEPT !.pc = "hquery"])
       ELSE /\ checkedOut' = checkedOut
            /\ Set(s, [Respond(slots[s], 200, "", {}) EXCEPT !.db = "disconnected"])
  /\ UNCHANGED <<Store, Env, ops>>

HealthQuery(s) ==
  /\ alive /\ slots[s].pc = "hquery"
  /\ IF dbUp
       THEN /\ checkedOut' = checkedOut - 1
            /\ Set(s, [Respond(slots[s], 200, "", {}) EXCEPT !.db = "connected"])
       ELSE /\ checkedOut' = checkedOut
            /\ Set(s, [Respond(slots[s], 200, "", {}) EXCEPT !.db = "disconnected"])
  /\ UNCHANGED <<Store, Env, ops>>

(***************************************************************************)
(* The parseBody callbacks of POST and PUT.                                *)
(***************************************************************************)

\* An exception thrown inside the async callback rejects a promise nobody
\* awaits: the request is never answered, and the runtime either goes on or
\* ends the process, by its unhandled-rejection mode.
Escaped(s, text) ==
  /\ Set(s, [slots[s] EXCEPT !.pc = "lost", !.body = text])
  /\ alive' \in BOOLEAN

PostBodyEnd(s) ==
  /\ Persisted /\ slots[s].pc = "body" /\ Route(slots[s].method, slots[s].path) = "create"
  /\ \E text \in PostBodies :
       LET parsed == parseBody(text)
           obj == parsed.body.obj
           r == [slots[s] EXCEPT !.body = text]
       IN IF parsed.err
            THEN Set(s, Respond(r, 400, "Invalid JSON", {})) /\ alive' = alive
          ELSE IF parsed.body.kind = "null"
            THEN Escaped(s, text)
          ELSE IF FalsyStr(obj, "name") \/ FalsyNum(obj, "price") \/ FalsyStr(obj, "category")
            THEN /\ Set(s, Respond(r, 400, "Name, price, and category are required", {}))
                 /\ alive' = alive
          ELSE IF obj.price <= 0
            THEN /\ Set(s, Respond(r, 400, "Price must be greater than 0", {}))
                 /\ alive' = alive
          ELSE Set(s, [r EXCEPT !.pc = "query"]) /\ alive' = alive
  /\ UNCHANGED <<Store, variant, clock, dbUp, boot, products, checkedOut, ops, Down>>

PutBodyEnd(s) ==
  /\ Persisted /\ slots[s].pc = "body" /\ Route(slots[s].method, slots[s].path) = "update"
  /\ \E text \in PutBodies :
       LET parsed == parseBody(text)
           obj == parsed.body.obj
           r == [slots[s] EXCEPT !.body = text]
       IN IF parsed.err
            THEN Set(s, Respond(r, 400, "Invalid JSON", {})) /\ alive' = alive
          ELSE IF parsed.body.kind = "null"
            THEN Escaped(s, text)
          ELSE IF ~FalsyNum(obj, "price") /\ obj.price <= 0
            THEN /\ Set(s, Respond(r, 400, "Price must be greater than 0", {}))
                 /\ alive' = alive
          ELSE IF UpdateFields(obj) = {}
            THEN Set(s, Respond(r, 400, "No fields to update", {})) /\ alive' = alive
          ELSE Set(s, [r EXCEPT !.pc = "query"]) /\ alive' = alive
  /\ UNCHANGED <<Store, variant, clock, dbUp, boot, products, checkedOut, ops, Down>>

(***************************************************************************)
(* The statements, each executed by the storage engine in one step.        *)
(***************************************************************************)

Pending(s, route) ==
  /\ alive /\ slots[s].pc = "query"
  /\ Route(slots[s].method, slots[s].path) = route

Rows(rows) == [kind |-> "rows", rows |-> rows]

Failed == [kind |-> "error", rows |-> {}]

Got(s, result) == Set(s, [slots[s] EXCEPT !.pc = "result", !.result = result])

\* SELECT ... FROM products WHERE 1=1 [AND ...] ORDER BY created_at DESC
ExecSelectAll(s) ==
  /\ Pending(s, "list")
  /\ Got(s, IF StorageOk THEN Rows(Select(table, getAllProducts(slots[s].query)))
                         ELSE Failed)
  /\ UNCHANGED <<Store, Env, checkedOut, ops>>

\* SELECT ... FROM products WHERE id = $1
ExecSelectById(s) ==
  /\ Pending(s, "get")
  /\ Got(s, IF StorageOk THEN Rows(RowsWithId(table, slots[s].id)) ELSE Failed)
  /\ UNCHANGED <<Store, Env, checkedOut, ops>>

\* INSERT INTO products ... RETURNING ...; the sequence advances even when
\* a CHECK constraint rejects the row.
ExecInsert(s) ==
  /\ Pending(s, "create")
  /\ IF StorageOk
       THEN LET row == InsertRow(CreateParams(slots[s].body.obj), NextVal(seq), clock)
            IN /\ seq < MaxSeq
               /\ seq' = NextVal(seq)
               /\ IF CheckOk(row)
                    THEN /\ table' = table \cup {row}
                         /\ issued' = Append(issued, row.id)
                         /\ Got(s, Rows({row}))
                    ELSE /\ UNCHANGED <<table, issued>>
                         /\ Got(s, Failed)
       ELSE /\ UNCHANGED <<table, seq, issued>>
            /\ Got(s, Failed)
  /\ UNCHANGED <<del200, Env, checkedOut, ops>>

\* UPDATE products SET ... WHERE id = $n RETURNING ...
ExecUpdate(s) ==
  /\ Pending(s, "update")
  /\ LET st == updateProduct(slots[s].id, slots[s].body.obj)
         old == RowsWithId(table, st.params[st.where])
         new == {ApplyUpdate(row, Bound(st), clock) : row \in old}
     IN IF ~StorageOk
          THEN table' = table /\ Got(s, Failed)
        ELSE IF \A row \in new : CheckOk(row)
          THEN table' = (table \ old) \cup new /\ Got(s, Rows(new))
        ELSE table' = table /\ Got(s, Failed)
  /\ UNCHANGED <<seq, issued, del200, Env, checkedOut, ops>>

\* DELETE FROM products WHERE id = $1 RETURNING ...
ExecDelete(s) ==
  /\ Pending(s, "delete")
  /\ LET old == RowsWithId(table, slots[s].id)
     IN IF StorageOk
          THEN table' = AfterDelete(table, slots[s].id) /\ Got(s, Rows(old))
          ELSE table' = table /\ Got(s, Failed)
  /\ UNCHANGED <<seq, issued, del200, Env, checkedOut, ops>>

(***************************************************************************)
(* The continuations after await.                                          *)
(***************************************************************************)

Resumed(s, route) ==
  /\ alive /\ slots[s].pc = "result"
  /\ Route(slots[s].method, slots[s].path) = route

\* getAllProducts rethrows; the listener's outer catch answers.
ResumeList(s) ==
  /\ Resumed(s, "list")
  /\ LET r == slots[s]
     IN IF r.result.kind = "error"
          THEN Set(s, Respond(r, 500, "Internal server error", {}))
          ELSE Set(s, Respond(r, 200, "", r.result.rows))
  /\ UNCHANGED <<Store, Env, checkedOut, ops>>

ResumeGet(s) ==
  /\ Resumed(s, "get")
  /\ LET r == slots[s]
     IN IF r.result.kind = "error"
          THEN Set(s, Respond(r, 500, "Internal server error", {}))
        ELSE IF r.result.rows = {}
          THEN Set(s, Respond(r, 404, "Product not found", {}))
        ELSE Set(s, Respond(r, 200, "", r.result.rows))
  /\ UNCHANGED <<Store, Env, checkedOut, ops>>

ResumeCreate(s) ==
  /\ Resumed(s, "create")
  /\ LET r == slots[s]
     IN IF r.result.kind = "error"
          THEN Set(s, Respond(r, 400, "Failed to create product", {}))
          ELSE Set(s, Respond(r, 201, "", r.result.rows))
  /\ UNCHANGED <<Store, Env, checkedOut, ops>>

\* A PUT continuation that answers 200 without looking for the updated row.
ResumeUpdateBlind(s) ==
  /\ Resumed(s, "update")
  /\ LET r == slots[s]
     IN IF r.result.kind = "error"
          THEN Set(s, Respond(r, 400, "Failed to update product", {}))
          ELSE Set(s, Respond(r, 200, "", r.result.rows))
  /\ UNCHANGED <<Store, Env, checkedOut, ops>>

ResumeUpdate(s) ==
  /\ Resumed(s, "update")
  /\ LET r == slots[s]
     IN IF r.result.kind = "error"
          THEN Set(s, Respond(r, 400, "Failed to update product", {}))
        ELSE IF r.result.rows = {}
          THEN Set(s, Respond(r, 404, "Product not found", {}))
        ELSE Set(s, Respond(r, 200, "", r.result.rows))
  /\ UNCHANGED <<Store, Env, checkedOut, ops>>

ResumeDelete(s) ==
  /\ Resumed(s, "delete")
  /\ LET r == slots[s]
     IN IF r.result.kind = "error"
          THEN /\ Set(s, Respond(r, 400, "Failed to delete product", {}))
               /\ del200' = del200
        ELSE IF r.result.rows = {}
          THEN /\ Set(s, Respond(r, 404, "Product not found", {}))
               /\ del200' = del200
        ELSE /\ Set(s, Respond(r, 200, "", r.result.rows))
             /\ del200' = [del200 EXCEPT ![r.id] = @ + 1]
  /\ UNCHANGED <<table, seq, issued, Env, checkedOut, ops>>

\* The connection is reused for the next request.
Recycle(s) ==
  /\ alive /\ slots[s].pc = "done"
  /\ Set(s, Idle)
  /\ UNCHANGED <<Store, Env, checkedOut, ops>>

(***************************************************************************)
(* The environment.                                                        *)
(***************************************************************************)

\* Time passes.  Only INSERT, UPDATE and the in-memory POST read the clock, so
\* it is advanced while one of them is about to run.
Tick ==
  /\ \E s \in Slots :
       \/ slots[s].pc = "query" /\ slots[s].method \in {"POST", "PUT"}
       \/ slots[s].pc = "body" /\ variant = "memory"
  /\ clock < MaxClock
  /\ clock' = clock + 1
  /\ UNCHANGED <<Store, variant, dbUp, boot, alive, products, checkedOut, slots, ops, Down>>

StorageDown ==
  /\ dbUp
  /\ dbUp' = FALSE
  /\ UNCHANGED <<Store, variant, clock, boot, alive, products, checkedOut, slots, ops, Down>>

StorageUp ==
  /\ ~dbUp
  /\ dbUp' = TRUE
  /\ UNCHANGED <<Store, variant, clock, boot, alive, products, checkedOut, slots, ops, Down>>

(***************************************************************************)
(* gracefulShutdown                                                        *)
(***************************************************************************)

Callback(err) == [err |-> err, pc |-> "registered", poolErr |-> FALSE]

\* SIGTERM or SIGINT once the server listens: server.close(callback).  The
\* first close stops the listening; a close of a server that is not
\* listening hands its callback ERR_SERVER_NOT_RUNNING.
Signal ==
  /\ Persisted /\ boot \in {"listening", "closed"}
  /\ Len(closing) < MaxSignals
  /\ closing' = Append(closing, Callback(boot = "closed"))
  /\ boot' = "closed"
  /\ UNCHANGED <<Store, variant, clock, dbUp, alive, products, checkedOut, slots, ops,
                 pool, exitCode>>

\* The 'close' event, once no connection is left: the callback logs and
\* calls pool.end(), which rejects when end() was called before.
Drained(i) ==
  /\ Persisted /\ boot = "closed"
  /\ i \in DOMAIN closing /\ closing[i].pc = "registered"
  /\ \A j \in 1..(i - 1) : closing[j].pc # "registered"
  /\ \A s \in Slots : slots[s].pc = "idle"
  /\ IF pool = "open"
       THEN /\ pool' = "ending"
            /\ closing' = [closing EXCEPT ![i].pc = "ending"]
       ELSE /\ pool' = pool
            /\ closing' = [closing EXCEPT ![i].pc = "exit", ![i].poolErr = TRUE]
  /\ UNCHANGED <<Store, variant, clock, dbUp, boot, alive, products, checkedOut, slots, ops,
                 exitCode>>

\* await pool.end() resolves when the pool has no client left.
PoolEnded(i) ==
  /\ Persisted
  /\ i \in DOMAIN closing /\ closing[i].pc = "ending"
  /\ pool = "ending" /\ checkedOut = 0
  /\ pool' = "ended"
  /\ closing' = [closing EXCEPT ![i].pc = "exit"]
  /\ UNCHANGED <<Store, variant, clock, dbUp, boot, alive, products, checkedOut, slots, ops,
                 exitCode>>

\* await pool.end() rejects; the catch logs the error.
PoolEndFails(i) ==
  /\ Persisted
  /\ i \in DOMAIN closing /\ closing[i].pc = "ending"
  /\ closing' = [closing EXCEPT ![i].pc = "exit", ![i].poolErr = TRUE]
  /\ UNCHANGED <<Store, variant, clock, dbUp, boot, alive, products, checkedOut, slots, ops,
                 pool, exitCode>>

\* process.exit(err ? 1 : 0)
Exit(i) ==
  /\ Persisted
  /\ i \in DOMAIN closing /\ closing[i].pc = "exit"
  /\ alive' = FALSE
  /\ exitCode' = IF closing[i].err THEN 1 ELSE 0
  /\ closing' = [closing EXCEPT ![i].pc = "exited"]
  /\ UNCHANGED <<Store, variant, clock, dbUp, boot, products, checkedOut, slots, ops, pool>>

(***************************************************************************)
(* The in-memory variant: every handler runs to its response in one turn   *)
(* of the event loop, POST after its body has arrived.                     *)
(***************************************************************************)

MemRoute(method, path) ==
  IF method = "OPTIONS" THEN "preflight"
  ELSE IF path = "health" THEN "health"
  ELSE IF path = "collection" /\ method = "GET" THEN "list"
  ELSE IF path = "item" /\ method = "GET" THEN "get"
  ELSE IF path = "collection" /\ method = "POST" THEN "create"
  ELSE "notfound"

MemWithId(arr, id) == {arr[i] : i \in {j \in 1..Len(arr) : arr[j].id = id}}

MemAll(arr) == {arr[i] : i \in 1..Len(arr)}

InMemory == variant = "memory" /\ alive

MemAccept(s) ==
  /\ InMemory /\ boot = "listening"
  /\ Free(s) /\ ops < MaxOps /\ ops' = ops + 1

MemFrame == UNCHANGED <<Store, Env, checkedOut>>

MemPreflight(s) ==
  /\ MemAccept(s)
  /\ \E path \in Paths :
       Set(s, Respond(Received("OPTIONS", path, 0), 200, "", {}))
  /\ MemFrame

MemHealth(s) ==
  /\ MemAccept(s)
  /\ \E method \in Methods :
       /\ MemRoute(method, "health") = "health"
       /\ Set(s, Respond(Received(method, "health", 0), 200, "", {}))
  /\ MemFrame

\* The three filter() calls of the in-memory GET /api/products.
MemFilter(S, query) ==
  {p \in S :
     /\ FalsyStr(query, "category")
          \/ Includes(ToLower(Chars(p.category)), ToLower(Chars(query.category)))
     /\ FalsyText(query, "minPrice") \/ JsGe(p.price, parseFloatText(query.minPrice))
     /\ FalsyText(query, "maxPrice") \/ JsLe(p.price, parseFloatText(query.maxPrice))}

MemList(s) ==
  /\ MemAccept(s)
  /\ Set(s, Respond(Received("GET", "collection", 0), 200, "",
                    MemFilter(MemAll(products), NoQuery)))
  /\ MemFrame

\* GET /api/products with query parameters.
MemFilteredList(s) ==
  /\ MemAccept(s)
  /\ \E q \in Queries \ {NoQuery} :
       Set(s, Respond([Received("GET", "collection", 0) EXCEPT !.query = q], 200, "",
                      MemFilter(MemAll(products), q)))
  /\ MemFrame

MemGet(s) ==
  /\ MemAccept(s)
  /\ \E id \in RequestIds \cup {NextMemId(products)} :
       LET found == MemWithId(products, id)
           r == Received("GET", "item", id)
       IN IF found = {}
            THEN Set(s, Respond(r, 404, "Product not found", {}))
            ELSE Set(s, Respond(r, 200, "", found))
  /\ MemFrame

MemRouteNotFound(s) ==
  /\ MemAccept(s)
  /\ \E method \in Methods, path \in Paths :
       /\ MemRoute(method, path) = "notfound"
       /\ Set(s, Respond(Received(method, path, 0), 404, "Route not found", {}))
  /\ MemFrame

MemReadBody(s) ==
  /\ MemAccept(s)
  /\ Set(s, [Received("POST", "collection", 0) EXCEPT !.pc = "body"])
  /\ MemFrame

\* The callback is synchronous: what it throws is an uncaught exception of
\* the 'end' event, and the process ends.
MemPostBodyEnd(s) ==
  /\ InMemory /\ slots[s].pc = "body"
  /\ \E text \in PostBodies :
       LET parsed == parseBody(text)
           obj == parsed.body.obj
           r == [slots[s] EXCEPT !.body = text]
       IN IF parsed.err
            THEN /\ Set(s, Respond(r, 400, "Invalid JSON", {}))
                 /\ UNCHANGED <<products, issued, alive>>
          ELSE IF parsed.body.kind = "null"
            THEN /\ Set(s, [r EXCEPT !.pc = "lost"])
                 /\ alive' = FALSE
                 /\ UNCHANGED <<products, issued>>
          ELSE IF FalsyStr(obj, "name") \/ FalsyNum(obj, "price") \/ FalsyStr(obj, "category")
            THEN /\ Set(s, Respond(r, 400, "Name, price, and category are required", {}))
                 /\ UNCHANGED <<products, issued, alive>>
          ELSE LET new == NewProduct(obj, products, clock)
               IN /\ products' = Append(products, new)
                  /\ issued' = Append(issued, new.id)
                  /\ Set(s, Respond(r, 201, "", {new}))
                  /\ alive' = alive
  /\ UNCHANGED <<variant, table, seq, del200, clock, dbUp, boot, checkedOut, ops, Down>>

\* The in-memory variant listens at once.
MemListen ==
  /\ InMemory /\ boot # "listening"
  /\ boot' = "listening"
  /\ UNCHANGED <<Store, variant, clock, dbUp, alive, products, checkedOut, slots, ops, Down>>

(***************************************************************************)
(* Specifications.                                                         *)
(***************************************************************************)

Startup == StartConnect \/ StartQuery \/ StartListen

Products(s) ==
  \/ Preflight(s) \/ RouteNotFound(s) \/ Query(s) \/ ReadBody(s)
  \/ PostBodyEnd(s) \/ PutBodyEnd(s)
  \/ ExecSelectAll(s) \/ ExecSelectById(s) \/ ExecInsert(s) \/ ExecUpdate(s)
  \/ ExecDelete(s)
  \/ ResumeList(s) \/ ResumeGet(s) \/ ResumeCreate(s) \/ ResumeUpdate(s)
  \/ ResumeDelete(s)

Memory(s) ==
  \/ MemPreflight(s) \/ MemHealth(s) \/ MemList(s) \/ MemGet(s)
  \/ MemRouteNotFound(s) \/ MemReadBody(s) \/ MemPostBodyEnd(s)

\* The product routes of either variant, the persisted one over storage that
\* answers every statement.
Next ==
  \/ Startup \/ MemListen \/ Tick
  \/ \E s \in Slots : Products(s) \/ Memory(s) \/ Recycle(s)

Spec == Init /\ [][Next]_vars

Probes(s) ==
  \/ Health(s) \/ HealthConnect(s) \/ HealthQuery(s)
  \/ Query(s)
  \/ ExecSelectAll(s) \/ ExecSelectById(s) \/ ExecDelete(s)
  \/ ResumeList(s) \/ ResumeGet(s) \/ ResumeDelete(s)
  \/ Recycle(s)

\* The persisted variant's health probe and its routes without a body, over
\* a pool of PoolMax clients and storage that may stop answering and come
\* back.
NextOutage == Startup \/ StorageDown \/ StorageUp \/ \E s \in Slots : Probes(s)

InitOutage == Init /\ variant = "persisted"

SpecOutage == InitOutage /\ [][NextOutage]_vars

Listing(s) ==
  \/ FilteredList(s) \/ Query(s)
  \/ ExecSelectAll(s) \/ ExecSelectById(s) \/ ExecDelete(s)
  \/ ResumeList(s) \/ ResumeGet(s) \/ ResumeDelete(s)
  \/ MemFilteredList(s) \/ MemList(s) \/ MemGet(s)
  \/ Recycle(s)

\* GET /api/products with and without query parameters in either variant,
\* next to the routes without a body.
NextList == Startup \/ MemListen \/ \E s \in Slots : Listing(s)

SpecList == Init /\ [][NextList]_vars

Statements(s) ==
  \/ FilteredList(s) \/ ReadBody(s)
  \/ PostBodyEnd(s) \/ PutBodyEnd(s)
  \/ ExecSelectAll(s) \/ ExecInsert(s) \/ ExecUpdate(s)
  \/ ResumeList(s) \/ ResumeCreate(s) \/ ResumeUpdate(s)
  \/ Recycle(s)

\* The persisted variant's routes that build their command text: the list
\* with query parameters and the update, next to the create.
NextSql == Startup \/ \E s \in Slots : Statements(s)

SpecSql == InitOutage /\ [][NextSql]_vars

Shutdown == \E i \in 1..MaxSignals : Drained(i) \/ PoolEnded(i) \/ Exit(i)

Requests(s) ==
  \/ ExecSelectAll(s) \/ ExecSelectById(s) \/ ExecDelete(s)
  \/ ResumeList(s) \/ ResumeGet(s) \/ ResumeDelete(s)
  \/ Recycle(s)

\* The persisted variant from startServer to process.exit: the routes
\* without a body, storage that may stop answering and come back, and the
\* termination signals.
NextShutdown ==
  \/ Startup \/ StorageDown \/ StorageUp
  \/ \E s \in Slots : Query(s) \/ Requests(s)
  \/ Signal \/ Shutdown \/ \E i \in 1..MaxSignals : PoolEndFails(i)

SpecShutdown == InitOutage /\ [][NextShutdown]_vars

\* The event loop runs every continuation and callback that is ready; no
\* request, signal or storage failure is bound to come.
FairShutdown ==
  /\ SpecShutdown
  /\ WF_vars(Startup)
  /\ WF_vars(\E s \in Slots : Requests(s))
  /\ WF_vars(Shutdown)

(***************************************************************************)
(* Properties.                                                             *)
(***************************************************************************)

Answered(s, route) ==
  /\ variant = "persisted"
  /\ slots[s].pc = "done"
  /\ Route(slots[s].method, slots[s].path) = route

Is(s, status, error) == slots[s].status = status /\ slots[s].error = error

\* The body of slot s is a JSON object (the empty body parses to {}).
ObjectBody(s) == slots[s].body.kind \in {"empty", "object"}

\* C1: an exception raised while a request is handled is answered: no
\* request is left without a response by an exception that escaped its
\* handler, and the process keeps running, whatever valid JSON the body is.
C1_ExceptionsAreAnswered ==
  variant = "persisted" => alive /\ \A s \in Slots : slots[s].pc # "lost"

\* C2: every client taken with pool.connect() is released on every exit
\* path: when neither startServer nor a health probe holds a client for its
\* query, no client is checked out, and the pool is never exhausted.
C2_ClientsAreReleased ==
  /\ (boot \in {"listen", "listening"} /\ \A s \in Slots : slots[s].pc # "hquery")
       => checkedOut = 0
  /\ checkedOut < PoolMax

\* C3: a POST whose body has name and category and price 0 is answered 400
\* with the error "Price must be greater than 0", and creates no record.
C3_ZeroPriceIsNotPositive ==
  \A s \in Slots :
    (/\ Answered(s, "create")
     /\ slots[s].body.kind = "object"
     /\ {"name", "price", "category"} \subseteq DOMAIN slots[s].body.obj
     /\ slots[s].body.obj.price = 0)
      => Is(s, 400, "Price must be greater than 0") /\ slots[s].data = {}

\* C4: in the persisted variant every stored product has price > 0 and
\* stock >= 0, and a PUT to a stored product that supplies price <= 0 or
\* stock < 0 is answered 400 (the value is rejected, not clamped).
C4_BadValuesAreRejected ==
  /\ \A row \in table : row.price > 0 /\ row.stock >= 0
  /\ \A s \in Slots :
       (/\ Answered(s, "update")
        /\ slots[s].body.kind = "object"
        /\ slots[s].id \in Ids(table)
        /\ LET obj == slots[s].body.obj
           IN \/ Has(obj, "price") /\ obj.price <= 0
              \/ Has(obj, "stock") /\ obj.stock < 0)
         => slots[s].status = 400

\* C5: in both variants a POST whose body lacks name, price or category, or
\* whose price is <= 0, is answered 400 and returns no product.
C5_CreateIsValidated ==
  \A s \in Slots :
    (/\ slots[s].pc = "done"
     /\ slots[s].method = "POST" /\ slots[s].path = "collection"
     /\ ObjectBody(s)
     /\ LET obj == slots[s].body.obj
        IN \/ ~({"name", "price", "category"} \subseteq DOMAIN obj)
           \/ obj.price <= 0)
      => slots[s].status = 400 /\ slots[s].data = {}

C7_EmptyUpdateIsRejected ==
  \A s \in Slots :
    (/\ variant = "persisted"
     /\ Route(slots[s].method, slots[s].path) = "update"
     /\ ObjectBody(s)
     /\ (DOMAIN slots[s].body.obj) \cap Keys = {})
      => slots[s].pc = "done" /\ Is(s, 400, "No fields to update") /\ slots[s].data = {}

\* PUTs with the empty body and with only an unknown key were both answered.
C7_Witness ==
  /\ Answered(1, "update") /\ slots[1].body.kind = "empty"
  /\ Answered(2, "update") /\ slots[2].body = Text("object", With(EmptyObj, "id", 7000))
  /\ table = SeedRows

NeverAssigned(id) == id \notin Range(issued)

RejectedEarly(body) ==
  \/ body.kind = "malformed"
  \/ /\ body.kind \in {"empty", "object"}
     /\ \/ (DOMAIN body.obj) \cap Keys = {}
        \/ Has(body.obj, "price") /\ body.obj.price < 0

C9_OneDeleteSucceeds ==
  /\ \A id \in RequestIds : del200[id] <= 1 /\ (del200[id] = 1 => id \notin Ids(table))
  /\ \A s \in Slots :
       Answered(s, "delete")
         => \/ /\ Is(s, 200, "")
               /\ \E row \in slots[s].data : slots[s].data = {row} /\ row.id = slots[s].id
               /\ del200[slots[s].id] = 1
            \/ /\ Is(s, 404, "Product not found")
               /\ slots[s].data = {}
               /\ slots[s].known
                    => \/ del200[slots[s].id] = 1
                       \/ \E t \in Slots \ {s} :
                            /\ slots[t].pc = "result" /\ slots[t].method = "DELETE"
                            /\ slots[t].id = slots[s].id
                            /\ slots[t].result.rows # {}

\* Two DELETE requests for product 1 were answered, one 200 and one 404.
C9_Witness ==
  /\ Answered(1, "delete") /\ slots[1].id = 1 /\ slots[1].known /\ slots[2].known
  /\ Answered(2, "delete") /\ slots[2].id = 1
  /\ {slots[1].status, slots[2].status} = {200, 404}

\* The value a column holds after it is set from a body's field.
StoredAs(f, v) == IF f = "price" THEN Round2(v) ELSE IF f = "stock" THEN parseInt(v) ELSE v

\* C10: a successful update changes, of that product, the fields among name,
\* description, price, category, stock that the body has, and updated_at;
\* its other fields, its id and its created_at keep their values (also when
\* the body has an id key), and every other product is unchanged.
C10_UpdateChangesOnlyGivenFields ==
  [][\A s \in Slots :
       (/\ slots[s].pc = "query" /\ slots'[s].pc = "result"
        /\ Route(slots[s].method, slots[s].path) = "update"
        /\ slots'[s].result.kind = "rows" /\ slots'[s].result.rows # {})
         => LET id == slots[s].id
                obj == slots[s].body.obj
                given == (DOMAIN obj) \cap Keys
            IN /\ id \in Ids(table) /\ id \in Ids(table')
               /\ {row \in table' : row.id # id} = {row \in table : row.id # id}
               /\ \A old \in RowsWithId(table, id), new \in RowsWithId(table', id) :
                    /\ \A f \in (DOMAIN old) \ (given \cup {"updated_at"}) : new[f] = old[f]
                    /\ \A f \in given : new[f] = StoredAs(f, obj[f])
                    /\ new.updated_at = clock
                    /\ slots'[s].result.rows = {new}]_vars

\* A PUT with an id key and a name was answered 200 after the clock moved:
\* the product has the new name, its id and price, and a later updated_at.
C10_Witness ==
  \E s \in Slots :
    /\ Answered(s, "update") /\ slots[s].status = 200 /\ slots[s].id = 1
    /\ slots[s].body = Text("object", With(Patch({"name"}), "id", 7000))
    /\ \E row \in table :
         /\ slots[s].data = {row}
         /\ row.id = 1 /\ row.name = "Mouse" /\ row.price = 1299990
         /\ row.created_at = 0 /\ row.updated_at = 1
    /\ \E row \in table : row.id = 2 /\ row \in SeedRows

\* The criteria as the listing contract states them: the category contains
\* the given text whatever the case, price >= minPrice, price <= maxPrice; a
\* parameter that is absent constrains nothing.
Meets(p, query) ==
  /\ Has(query, "category")
       => Includes(ToLower(Chars(p.category)), ToLower(Chars(query.category)))
  /\ Has(query, "minPrice") => p.price >= query.minPrice.n
  /\ Has(query, "maxPrice") => p.price <= query.maxPrice.n

\* The price parameters of the query are numbers.
Numeric(query) ==
  \A k \in {"minPrice", "maxPrice"} \cap DOMAIN query : query[k].kind = "digits"

\* C11: GET /api/products returns exactly the products that meet every
\* criterion the query supplies, in the persisted variant (the rows the SELECT
\* returns) and in the in-memory one (the data of the response), and on the
\* same products and query the persisted variant selects what the in-memory
\* filter selects.
C11_ListIsFiltered ==
  [][\A s \in Slots :
       /\ (/\ variant = "persisted"
           /\ slots[s].pc = "query" /\ slots'[s].pc = "result"
           /\ Route(slots[s].method, slots[s].path) = "list"
           /\ slots'[s].result.kind = "rows")
            => /\ Numeric(slots[s].query)
                    => slots'[s].result.rows = {p \in table : Meets(p, slots[s].query)}
               /\ slots'[s].result.rows = MemFilter(table, slots[s].query)
       /\ (/\ variant = "memory"
           /\ slots[s].pc = "idle" /\ slots'[s].pc = "done"
           /\ MemRoute(slots'[s].method, slots'[s].path) = "list"
           /\ Numeric(slots'[s].query))
            => slots'[s].data = {p \in MemAll(products) : Meets(p, slots'[s].query)}]_vars

\* The parameter a clause of the list's WHERE is to be compared with.
FilterValue(query, clause) ==
  CASE clause.op = "like" -> <<"%">> \o Chars(query.category) \o <<"%">>
    [] clause.op = ">=" -> parseFloatText(query.minPrice)
    [] clause.op = "<=" -> parseFloatText(query.maxPrice)

\* The i-th placeholder of the list's text is $i and its parameter is the
\* value of the filter its clause names.
ListIsBound(query) ==
  LET st == getAllProducts(query)
  IN /\ Len(st.params) = Len(st.text)
     /\ \A i \in DOMAIN st.text :
          /\ st.text[i].ph = i
          /\ st.text[i].col \in {"category", "price"}
          /\ st.params[i] = FilterValue(query, st.text[i])

\* The i-th placeholder of the update's SET list is $i and its parameter is
\* the value of the field it names; the id is the last parameter, the one
\* WHERE id = $n names.
UpdateIsBound(id, obj) ==
  LET st == updateProduct(id, obj)
  IN /\ Len(st.params) = Len(st.set) + 1
     /\ {st.set[i].col : i \in DOMAIN st.set} = UpdateFields(obj)
     /\ \A i \in DOMAIN st.set :
          /\ st.set[i].ph = i
          /\ st.params[i] = UpdateParams(obj)[st.set[i].col]
     /\ st.where = Len(st.params)
     /\ st.params[st.where] = id

UpdateText(id, obj) == <<updateProduct(id, obj).set, updateProduct(id, obj).where>>

\* Every update with the same fields present as the one pending in slot s
\* has its command text.
UpdateTextFromFields(s) ==
  \A b \in PutBodies, id \in RequestIds :
    (b.kind = "object" /\ UpdateFields(b.obj) = UpdateFields(slots[s].body.obj))
      => UpdateText(id, b.obj) = UpdateText(slots[s].id, slots[s].body.obj)

PendingList(s) ==
  /\ variant = "persisted" /\ slots[s].pc = "query"
  /\ Route(slots[s].method, slots[s].path) = "list"

PendingUpdate(s) ==
  /\ variant = "persisted" /\ slots[s].pc = "query"
  /\ Route(slots[s].method, slots[s].path) = "update"

\* C12 as stated: the command text of a pending list or update is the text
\* of every call with the same query parameters, or the same body fields,
\* present, whatever their values; each placeholder $i names the i-th
\* parameter, which holds the value, and the id is an update's last one.
C12_TextFromPresentFields ==
  \A s \in Slots :
    /\ PendingList(s)
         => /\ \A q \in Queries :
                 DOMAIN q = DOMAIN slots[s].query
                   => getAllProducts(q).text = getAllProducts(slots[s].query).text
            /\ ListIsBound(slots[s].query)
    /\ PendingUpdate(s)
         => UpdateTextFromFields(s) /\ UpdateIsBound(slots[s].id, slots[s].body.obj)

\* The query parameters that are present and not empty.
Supplied(query) ==
  {k \in DOMAIN query : IF k = "category" THEN query[k] # "" ELSE query[k].kind # "blank"}

\* C12 amended: the command text of a pending list is the text of every
\* call with the same query parameters present and not empty (a parameter
\* that is present and empty adds no clause), and that of a pending update
\* the text of every call with the same body fields present, whatever the
\* values; each placeholder $i names the i-th parameter, which holds the
\* value, and the id is an update's last one.
C12_TextFromSuppliedFields ==
  \A s \in Slots :
    /\ PendingList(s)
         => /\ \A q \in Queries :
                 Supplied(q) = Supplied(slots[s].query)
                   => getAllProducts(q).text = getAllProducts(slots[s].query).text
            /\ ListIsBound(slots[s].query)
    /\ PendingUpdate(s)
         => UpdateTextFromFields(s) /\ UpdateIsBound(slots[s].id, slots[s].body.obj)

\* A list with a category and a maximum price and an update of all five
\* fields have their statements pending.
C12_Witness ==
  /\ PendingList(1)
  /\ slots[1].query = With(With(EmptyObj, "category", "audio"), "maxPrice", Digits(250000))
  /\ PendingUpdate(2) /\ slots[2].body = Text("object", Patch(Keys))

Signalled == closing # <<>>

Exited == exitCode # 0 - 1

\* C13: after a termination signal the server accepts no connection; the
\* pool is closed only when every request has been answered, so no request
\* has a storage query running on a pool being closed; the process exits
\* only when the pool is closed; and the process does exit.
C13_ShutdownInOrder ==
  /\ [](Signalled => boot # "listening")
  /\ [](pool # "open" => \A s \in Slots : slots[s].pc = "idle")
  /\ [](Exited => pool = "ended")
  /\ (Signalled ~> Exited)

\* C14: when the process has exited from a shutdown callback, the exit code
\* is non-zero exactly when that callback met an error, from server.close or
\* from pool.end().
C14_ExitCodeTellsError ==
  \A i \in DOMAIN closing :
    closing[i].pc = "exited"
      => ((exitCode # 0) <=> (closing[i].err \/ closing[i].poolErr))

\* The body supplies at least one of the five fields, and values the table
\* accepts.
ValidPatch(body) ==
  /\ body.kind = "object"
  /\ UpdateFields(body.obj) # {}
  /\ Has(body.obj, "price") => body.obj.price > 0
  /\ Has(body.obj, "stock") => body.obj.stock >= 0

\* Slots s and t hold a PUT and a DELETE for the same seeded product, the
\* only two requests the service has received.
PutAndDelete(s, t) ==
  /\ variant = "persisted" /\ ops = 2
  /\ slots[s].pc # "idle" /\ Route(slots[s].method, slots[s].path) = "update"
  /\ slots[t].pc # "idle" /\ Route(slots[t].method, slots[t].path) = "delete"
  /\ slots[s].id = slots[t].id
  /\ slots[s].id \in Ids(SeedRows)

\* C15: when a PUT with valid fields and a DELETE for the same existing
\* product are the two requests in flight, then once both are answered either
\* the PUT has 200 with the updated record and the DELETE 200 with that same
\* record, or the DELETE has 200 with the original record and the PUT 404
\* "Product not found"; the product is absent afterwards, and from the
\* moment the DELETE statement has removed it, whatever the PUT does.
C15_UpdateOrDeleteFirst ==
  \A s, t \in Slots :
    PutAndDelete(s, t)
      => LET id == slots[s].id
             orig == CHOOSE row \in SeedRows : row.id = id
         IN /\ (slots[t].pc \in {"result", "done"} /\ slots[t].result.rows # {})
                 => id \notin Ids(table)
            /\ (slots[s].pc = "done" /\ slots[t].pc = "done" /\ ValidPatch(slots[s].body))
                 => /\ id \notin Ids(table)
                    /\ \/ /\ Is(s, 200, "") /\ Is(t, 200, "")
                          /\ slots[t].data = slots[s].data
                          /\ \E row \in slots[s].data :
                               /\ slots[s].data = {row}
                               /\ row = ApplyUpdate(orig, UpdateParams(slots[s].body.obj),
                                                    row.updated_at)
                       \/ /\ Is(t, 200, "") /\ slots[t].data = {orig}
                          /\ Is(s, 404, "Product not found") /\ slots[s].data = {}

\* The PUT arrived while the product existed and was answered 404 after the
\* DELETE, answered 200 with the original record.
C15_Witness ==
  /\ PutAndDelete(1, 2)
  /\ slots[1].known /\ slots[1].body = Text("object", Patch({"price"}))
  /\ slots[1].pc = "done" /\ slots[1].status = 404
  /\ slots[2].pc = "done" /\ slots[2].status = 200

====
